---- MODULE Spec2Model ----
(***************************************************************************)
(* A model of source/NVDAObjects/IAccessible/adobeAcrobat.py: the          *)
(* structure-tag classifier normalizeStdName and the MathML reconstruction *)
(* of AcrobatNode (_get_mathMl, _getNodeMathMl, getMathMLAttributes) over  *)
(* a foreign IPDDomElement tree.                                           *)
(*                                                                         *)
(* Representation of Python values:                                        *)
(*   - a str is a sequence of characters, each character a one-character   *)
(*     TLA+ string; "" is <<>>;                                            *)
(*   - None is the one-element sequence <<"None">>, whose element is not a *)
(*     character, so it equals no str;                                     *)
(*   - tag names and attribute names, which the code only compares for     *)
(*     equality and interpolates, are whole TLA+ strings;                  *)
(*   - a str built by an f-string is a sequence of pieces, each piece      *)
(*     recording where its text comes from: a literal of the code, a tag   *)
(*     name, an attribute name or a value read from the foreign tree.      *)
(*                                                                         *)
(* The log.debug and log.debugWarning statements are not modelled: they    *)
(* change no result.  An accessor of the foreign tree may raise COMError;  *)
(* a child that fails to resolve is part of the tree, and the failure of   *)
(* any other accessor call is an input of GetMathMl.                       *)
(***************************************************************************)
EXTENDS Integers, Sequences, FiniteSets, TLC

VARIABLES
    tree,       \* the foreign tree behind self.pdDomNode
    stdName,    \* the argument of normalizeStdName
    op,         \* the operation that has run ("none" before any)
    arg,        \* the node the operation was applied to (0: none)
    fail,       \* the accessor call that raises COMError during the operation
    ret         \* the outcome of the operation

vars == <<tree, stdName, op, arg, fail, ret>>

(***************************************************************************)
(* Bounds of the model.                                                    *)
(***************************************************************************)
MaxNameLen == 3     \* longest generated tag name given to normalizeStdName
MaxNodes == 4       \* most nodes of a generated foreign tree
MaxParts == 3       \* most parts concatenated into a generated raw value

(***************************************************************************)
(* Python values.                                                          *)
(***************************************************************************)
None == <<"None">>

Truthy(v) == v # None /\ v # <<>>

NoExc == "none"

\* The code points of the characters that occur in tag names.
CodePoints ==
    << <<"0", 48>>, <<"1", 49>>, <<"2", 50>>, <<"3", 51>>, <<"4", 52>>,
       <<"5", 53>>, <<"6", 54>>, <<"7", 55>>, <<"B", 66>>, <<"C", 67>>,
       <<"D", 68>>, <<"F", 70>>, <<"H", 72>>, <<"I", 73>>, <<"L", 76>>,
       <<"P", 80>>, <<"Q", 81>>, <<"S", 83>>, <<"a", 97>>, <<"b", 98>>,
       <<"c", 99>>, <<"e", 101>>, <<"i", 105>>, <<"k", 107>>, <<"l", 108>>,
       <<"m", 109>>, <<"o", 111>>, <<"p", 112>>, <<"r", 114>>, <<"t", 116>>,
       <<"u", 117>>, <<"v", 118>>, <<"x", 120>> >>

Ord(c) == CodePoints[CHOOSE i \in 1..Len(CodePoints) : CodePoints[i][1] = c][2]

\* a <= b for Python str: lexicographic by code point, a proper prefix is less.
RECURSIVE StrLE(_, _)
StrLE(a, b) ==
    IF a = <<>> THEN TRUE
    ELSE IF b = <<>> THEN FALSE
    ELSE IF Ord(Head(a)) < Ord(Head(b)) THEN TRUE
    ELSE IF Ord(Head(a)) > Ord(Head(b)) THEN FALSE
    ELSE StrLE(Tail(a), Tail(b))

(***************************************************************************)
(* normalizeStdName                                                        *)
(***************************************************************************)
Sect == <<"S", "e", "c", "t">>
Div == <<"D", "i", "v">>
BlockQuote == <<"B", "l", "o", "c", "k", "Q", "u", "o", "t", "e">>
Caption == <<"C", "a", "p", "t", "i", "o", "n">>
Formula == <<"F", "o", "r", "m", "u", "l", "a">>

stdNamesToRoles_swapped ==
    << <<Sect, "SECTION">>, <<Div, "SECTION">>, <<BlockQuote, "BLOCKQUOTE">>,
       <<Caption, "CAPTION">>, <<<<"L">>, "LISTITEM">>, <<<<"L", "I">>, "LIST">>,
       <<<<"L", "b", "l">>, "LABEL">>, <<<<"P">>, "PARAGRAPH">>,
       <<<<"H">>, "HEADING">>, <<Formula, "MATH">> >>

\* The dict stdNamesToRoles, as its key/value pairs.
stdNamesToRoles ==
    << <<Sect, "SECTION">>, <<Div, "SECTION">>, <<BlockQuote, "BLOCKQUOTE">>,
       <<Caption, "CAPTION">>, <<<<"L">>, "LIST">>, <<<<"L", "I">>, "LISTITEM">>,
       <<<<"L", "b", "l">>, "LABEL">>, <<<<"P">>, "PARAGRAPH">>,
       <<<<"H">>, "HEADING">>, <<Formula, "MATH">> >>

HasKey(d, k) == \E i \in 1..Len(d) : d[i][1] = k

Lookup(d, k) == d[CHOOSE i \in 1..Len(d) : d[i][1] = k][2]

\* The outcome of normalizeStdName(name): (role, level) or LookupError.
normalizeStdName(name) ==
    IF Truthy(name) /\ StrLE(<<"H", "1">>, name) /\ StrLE(name, <<"H", "6">>)
    THEN [exc |-> NoExc, role |-> "HEADING", level |-> <<name[2]>>]
    ELSE IF HasKey(stdNamesToRoles, name)
    THEN [exc |-> NoExc, role |-> Lookup(stdNamesToRoles, name), level |-> None]
    ELSE [exc |-> "LookupError", role |-> "", level |-> None]

(***************************************************************************)
(* The foreign tree.  Nodes are numbered 1..n in document order, node 1 is *)
(* self.pdDomNode, parent[i] is the parent of node i (0 for node 1).       *)
(* node[i].resolves says whether GetChild(..).QueryInterface(IPDDomElement)*)
(* yields node i or raises COMError.                                       *)
(***************************************************************************)
AttrNames ==
    {"MSFT_MathML", "intent", "arg", "mathvariant", "open", "close",
     "separators", "notation", "notationtype", "encoding", "width",
     "position", "shift", "length", "crossout", "align", "stackalign",
     "longdivstyle"}

Accessors == {"GetTagName", "GetID", "GetAttribute", "GetValue", "GetChildCount"}

NoFail == <<0, "none">>

\* The children of node x, in index order.
ChildSeq(t, x) ==
    LET S == {i \in 1..t.n : t.parent[i] = x}
    IN [k \in 1..Cardinality(S) |->
            CHOOSE i \in S : Cardinality({j \in S : j < i}) = k - 1]

\* Node x and the nodes below it.
RECURSIVE AncSelf(_, _)
AncSelf(parent, b) == IF b = 0 THEN {} ELSE {b} \cup AncSelf(parent, parent[b])

Subtree(t, x) == {i \in 1..t.n : x \in AncSelf(t.parent, i)}

(***************************************************************************)
(* Outcomes.  An outcome is [exc, val, log]: the exception raised (NoExc   *)
(* for none), the value returned, and the accessor calls made, in order.   *)
(***************************************************************************)
L(s) == [k |-> "lit", s |-> <<s>>]
T(tag) == [k |-> "tag", s |-> <<tag>>]
A(attr) == [k |-> "attr", s |-> <<attr>>]
V(v) == [k |-> "val", s |-> v]

Ok == [exc |-> NoExc, val |-> <<>>, log |-> <<>>]

Raise(e) == [exc |-> e, val |-> <<>>, log |-> <<>>]

\* One call of accessor `call` on node x, returning v unless it is the failing call.
Call(f, x, call, name, index, v) ==
    [exc |-> IF f = <<x, call>> THEN "COMError" ELSE NoExc,
     val |-> v,
     log |-> <<[node |-> x, call |-> call, name |-> name, index |-> index]>>]

\* s, then the call c: an exception in s skips c.
Do(s, c) ==
    IF s.exc # NoExc THEN s
    ELSE [exc |-> c.exc, val |-> s.val, log |-> s.log \o c.log]

\* answer += p
Emit(s, p) == IF s.exc # NoExc THEN s ELSE [s EXCEPT !.val = @ \o p]

\* answer += r.val, for the outcome r of a nested call
Then(s, r) ==
    IF s.exc # NoExc THEN s
    ELSE [exc |-> r.exc, val |-> s.val \o r.val, log |-> s.log \o r.log]

\* What the caller sees: an exception carries no value.
Final(s) == IF s.exc # NoExc THEN [s EXCEPT !.val = <<>>] ELSE s

GetTagName(t, f, x) == Call(f, x, "GetTagName", "", 0, t.node[x].tag)

GetID(t, f, x) == Call(f, x, "GetID", "", 0, t.node[x].id)

GetAttribute(t, f, x, attr) ==
    Call(f, x, "GetAttribute", attr, 0, t.node[x].attrs[attr])

GetValue(t, f, x) == Call(f, x, "GetValue", "", 0, t.node[x].value)

GetChildCount(t, f, x) ==
    Call(f, x, "GetChildCount", "", 0, Len(ChildSeq(t, x)))

\* node.GetChild(childNum).QueryInterface(IPDDomElement)
GetChildElement(t, x, childNum) ==
    LET c == ChildSeq(t, x)[childNum + 1]
    IN [exc |-> IF t.node[c].resolves THEN NoExc ELSE "COMError",
        val |-> c,
        log |-> <<[node |-> x, call |-> "GetChild", name |-> "", index |-> childNum]>>]

(***************************************************************************)
(* AcrobatNode.getMathMLAttributes and AcrobatNode._getNodeMathMl          *)
(***************************************************************************)
attrPiece_always(attr, val) == <<L(" "), A(attr), L("=\""), V(val), L("\"")>>

\* if val: attrValues += f' {attr}="{val}"'
attrPiece(attr, val) ==
    IF Truthy(val)
    THEN <<L(" "), A(attr), L("=\""), V(val), L("\"")>>
    ELSE <<>>

RECURSIVE getMathMLAttributes(_, _, _, _)
getMathMLAttributes(t, f, x, attrList) ==
    IF attrList = <<>> THEN Ok
    ELSE LET attr == Head(attrList)
             c == GetAttribute(t, f, x, attr)
         IN Then(Emit(Do(Ok, c), attrPiece(attr, c.val)),
                 getMathMLAttributes(t, f, x, Tail(attrList)))

tagAttributes_openOnMi(tag) ==
    CASE tag \in {"mi", "mn", "mo", "mtext"} -> <<"mathvariant", "open">>
      [] tag = "mfenced" -> <<"open", "close", "separators">>
      [] tag = "menclose" -> <<"notation", "notationtype">>
      [] tag \in {"annotation-xml", "annotation"} -> <<"encoding">>
      [] tag = "ms" -> <<"open", "close">>
      [] tag = "mspace" -> <<"width">>
      [] tag = "msgroup" -> <<"position", "shift">>
      [] tag = "msrow" -> <<"position">>
      [] tag = "msline" -> <<"position", "length">>
      [] tag = "mscarries" -> <<"position", "crossout">>
      [] tag = "mscarry" -> <<"crossout">>
      [] tag = "mstack" -> <<"align", "stackalign">>
      [] tag = "mlongdiv" -> <<"longdivstyle">>
      [] OTHER -> <<>>

\* The match statement: the attributes fetched for an element with this tag.
tagAttributes(tag) ==
    CASE tag \in {"mi", "mn", "mo", "mtext"} -> <<"mathvariant">>
      [] tag = "mfenced" -> <<"open", "close", "separators">>
      [] tag = "menclose" -> <<"notation", "notationtype">>
      [] tag \in {"annotation-xml", "annotation"} -> <<"encoding">>
      [] tag = "ms" -> <<"open", "close">>
      [] tag = "mspace" -> <<"width">>
      [] tag = "msgroup" -> <<"position", "shift">>
      [] tag = "msrow" -> <<"position">>
      [] tag = "msline" -> <<"position", "length">>
      [] tag = "mscarries" -> <<"position", "crossout">>
      [] tag = "mscarry" -> <<"crossout">>
      [] tag = "mstack" -> <<"align", "stackalign">>
      [] tag = "mlongdiv" -> <<"longdivstyle">>
      [] OTHER -> <<>>

RECURSIVE _getNodeMathMl(_, _, _)
RECURSIVE childLoop(_, _, _, _, _)
RECURSIVE childLoop_break(_, _, _, _, _)

\* break in place of continue
childLoop_break(t, f, x, childNum, count) ==
    IF childNum >= count THEN Ok
    ELSE LET c == GetChildElement(t, x, childNum)
             rest == childLoop_break(t, f, x, childNum + 1, count)
         IN IF c.exc = "COMError"
            THEN [Ok EXCEPT !.log = c.log]
            ELSE Then(Then(Do(Ok, c), _getNodeMathMl(t, f, c.val)), rest)

\* for childNum in range(count): the iterations from childNum on.
childLoop(t, f, x, childNum, count) ==
    IF childNum >= count THEN Ok
    ELSE LET c == GetChildElement(t, x, childNum)
             rest == childLoop(t, f, x, childNum + 1, count)
         IN IF c.exc = "COMError"
            THEN Then([Ok EXCEPT !.log = c.log], rest)      \* continue
            ELSE Then(Then(Do(Ok, c), _getNodeMathMl(t, f, c.val)), rest)

\* The text of the element after the opening tag: its value or its children.
content(t, f, x) ==
    LET cVal == GetValue(t, f, x)
        s1 == Do(Ok, cVal)
    IN IF s1.exc # NoExc THEN s1
       ELSE IF Truthy(cVal.val) THEN Emit(s1, <<V(cVal.val)>>)
       ELSE LET cCount == GetChildCount(t, f, x)
                s2 == Do(s1, cCount)
            IN IF s2.exc # NoExc THEN s2
               ELSE Then(s2, childLoop(t, f, x, 0, cCount.val))

\* The closing tag written only on the branch of a non-empty value.
_getNodeMathMl_closeInIf(t, f, x) ==
    LET cTag == GetTagName(t, f, x)
        tag == cTag.val
        s1 == Emit(Do(Ok, cTag), <<L("<"), T(tag)>>)
        cId == GetID(t, f, x)
        s2 == Do(s1, cId)
        s3 == IF Truthy(cId.val)
              THEN Emit(s2, <<L(" id=\""), V(cId.val), L("\"")>>)
              ELSE s2
        s4 == Then(s3, getMathMLAttributes(t, f, x, <<"intent", "arg">>))
        s5 == Then(s4, getMathMLAttributes(t, f, x, tagAttributes(tag)))
        s6 == Emit(s5, <<L(">")>>)
        s7 == Then(s6, content(t, f, x))
    IN IF Truthy(t.node[x].value) THEN Emit(s7, <<L("</"), T(tag), L(">")>>) ELSE s7

_getNodeMathMl(t, f, x) ==
    LET cTag == GetTagName(t, f, x)
        tag == cTag.val
        s1 == Emit(Do(Ok, cTag), <<L("<"), T(tag)>>)
        cId == GetID(t, f, x)
        s2 == Do(s1, cId)
        s3 == IF Truthy(cId.val)
              THEN Emit(s2, <<L(" id=\""), V(cId.val), L("\"")>>)
              ELSE s2
        s4 == Then(s3, getMathMLAttributes(t, f, x, <<"intent", "arg">>))
        s5 == Then(s4, getMathMLAttributes(t, f, x, tagAttributes(tag)))
        s6 == Emit(s5, <<L(">")>>)
        s7 == Then(s6, content(t, f, x))
    IN Emit(s7, <<L("</"), T(tag), L(">")>>)

(***************************************************************************)
(* str methods used by the fallback tier.                                  *)
(***************************************************************************)
\* s.startswith(prefix)
StartsWith(s, prefix) ==
    Len(s) >= Len(prefix) /\ SubSeq(s, 1, Len(prefix)) = prefix

\* s.find(old), counted from 1: the first occurrence of old in s, 0 for none.
Find(s, old) ==
    LET At == {i \in 1..(Len(s) - Len(old) + 1) :
                  s[i] = old[1] /\ SubSeq(s, i, i + Len(old) - 1) = old}
    IN IF At = {} THEN 0 ELSE CHOOSE i \in At : \A j \in At : i <= j

\* s.replace(old, new): every non-overlapping occurrence, found from the left.
RECURSIVE Replace(_, _, _)
Replace(s, old, new) ==
    LET i == Find(s, old)
    IN IF i = 0 THEN s
       ELSE SubSeq(s, 1, i - 1) \o new
                \o Replace(SubSeq(s, i + Len(old), Len(s)), old, new)

Amp == <<"&", "a", "m", "p", ";">>
Lt == <<"&", "l", "t", ";">>
Gt == <<"&", "g", "t", ";">>
Quot == <<"&", "q", "u", "o", "t", ";">>
Apos == <<"&", "#", "x", "2", "7", ";">>

\* html.escape(s, quote=False)
escape_noQuote(s) ==
    Replace(Replace(Replace(s, <<"&">>, Amp), <<"<">>, Lt), <<">">>, Gt)

\* html.escape(s): its replace calls in order, & first; quote defaults to True.
escape(s) ==
    Replace(Replace(Replace(Replace(Replace(s, <<"&">>, Amp), <<"<">>, Lt),
                            <<">">>, Gt), <<"\"">>, Quot), <<"'">>, Apos)

MathPrefix == <<"<", "m", "a", "t", "h">>

XmlnsMml ==
    <<"x", "m", "l", "n", "s", ":", "m", "m", "l", "=", "\"", "h",
      "t", "t", "p", ":", "/", "/", "w", "w", "w", ".", "w", "3", ".",
      "o", "r", "g", "/", "1", "9", "9", "8", "/", "M", "a", "t", "h",
      "/", "M", "a", "t", "h", "M", "L", "\"">>

(***************************************************************************)
(* AcrobatNode._get_mathMl                                                 *)
(***************************************************************************)
\* The third representation: the value of the Formula tag.
fallback(t, f, s) ==
    LET cVal == GetValue(t, f, 1)
        mathMl == cVal.val
        s1 == Do(s, cVal)
    IN IF s1.exc # NoExc THEN s1
       ELSE IF mathMl = None
       THEN [s1 EXCEPT !.exc = "AttributeError"]        \* None has no startswith
       ELSE IF StartsWith(mathMl, MathPrefix)
       THEN Emit(s1, <<V(Replace(mathMl, XmlnsMml, <<>>))>>)
       ELSE Emit(s1, <<L("<math><mtext>"), V(escape(mathMl)), L("</mtext></math>")>>)

\* for childNum in range(count): the iterations from childNum on, then the fallback.
RECURSIVE mathChildLoop(_, _, _, _, _)
mathChildLoop(t, f, childNum, count, s) ==
    IF childNum >= count THEN fallback(t, f, s)
    ELSE LET c == GetChildElement(t, 1, childNum)
         IN IF c.exc = "COMError"
            THEN mathChildLoop(t, f, childNum + 1, count,
                               [s EXCEPT !.log = @ \o c.log])     \* continue
            ELSE LET cTag == GetTagName(t, f, c.val)
                     s1 == Do(Do(s, c), cTag)
                 IN IF s1.exc # NoExc THEN s1
                    ELSE IF cTag.val = "math"
                    THEN Then(s1, _getNodeMathMl(t, f, c.val))
                    ELSE mathChildLoop(t, f, childNum + 1, count, s1)

_get_mathMl_childrenOnly(t, f) ==
    IF ~t.present THEN Raise("LookupError")
    ELSE LET cMath == GetAttribute(t, f, 1, "MSFT_MathML")
             s1 == Do(Ok, cMath)
         IN IF s1.exc # NoExc THEN s1
            ELSE LET cCount == GetChildCount(t, f, 1)
                     s2 == Do(s1, cCount)
                 IN IF s2.exc # NoExc THEN s2
                    ELSE mathChildLoop(t, f, 0, cCount.val, s2)

_get_mathMl(t, f) ==
    IF ~t.present THEN Raise("LookupError")
    ELSE LET cMath == GetAttribute(t, f, 1, "MSFT_MathML")
             s1 == Do(Ok, cMath)
         IN IF s1.exc # NoExc THEN s1
            ELSE IF Truthy(cMath.val) THEN Emit(s1, <<V(cMath.val)>>)
            ELSE LET cCount == GetChildCount(t, f, 1)
                     s2 == Do(s1, cCount)
                 IN IF s2.exc # NoExc THEN s2
                    ELSE mathChildLoop(t, f, 0, cCount.val, s2)

(***************************************************************************)
(* The generated inputs.                                                   *)
(***************************************************************************)
NameChars == {"H", "0", "1", "2", "3", "4", "5", "6", "7", "x"}

\* The strings of at most k characters over NameChars.
RECURSIVE Words(_)
Words(k) ==
    IF k = 0 THEN {<<>>}
    ELSE Words(k - 1) \cup {Append(w, c) : w \in Words(k - 1), c \in NameChars}

TableNames == {stdNamesToRoles[i][1] : i \in 1..Len(stdNamesToRoles)}

StdNames == Words(MaxNameLen) \cup TableNames \cup {None}

AllTags ==
    {"math", "mrow", "mi", "mn", "mo", "mtext", "mfenced", "menclose",
     "annotation-xml", "annotation", "ms", "mspace", "msgroup", "msrow",
     "msline", "mscarries", "mscarry", "mstack", "mlongdiv"}

ElementAttrs == AttrNames \ {"MSFT_MathML"}

NoAttrs == [a \in AttrNames |-> <<>>]

\* Only the attributes of S are set; the others are "".
OnlyAttrs(S) == [a \in AttrNames |-> IF a \in S THEN <<"v">> ELSE <<>>]

\* Every attribute of an element is set but those of S, which are None.
AllAttrsBut(S) ==
    [a \in AttrNames |->
        IF a = "MSFT_MathML" THEN <<>> ELSE IF a \in S THEN None ELSE <<"v">>]

AttrFamily ==
    {OnlyAttrs({}), AllAttrsBut({})}
        \cup {OnlyAttrs({a}) : a \in ElementAttrs}
        \cup {AllAttrsBut({a}) : a \in ElementAttrs}

\* The parent functions of the ordered trees of n nodes numbered in document order.
ValidParents(n) ==
    {p \in [1..n -> 0..(n - 1)] :
        IF \E i \in 1..n : p[i] >= i THEN FALSE
        ELSE \A i \in 2..n : p[i] >= 1 /\ p[i] \in AncSelf(p, i - 1)}

Node(resolves, tag, id, value, attrs) ==
    [resolves |-> resolves, tag |-> tag, id |-> id, value |-> value, attrs |-> attrs]

Unresolved == Node(FALSE, "", <<>>, <<>>, NoAttrs)

\* Trees that vary in shape, in which children resolve, in tags and in values.
\* What lies below a child that does not resolve cannot be seen: it is a leaf.
StructRoots ==
    {Node(TRUE, "Formula", <<>>, v, [NoAttrs EXCEPT !["MSFT_MathML"] = m]) :
        v \in {<<>>, <<"x">>}, m \in {<<>>, <<"M">>}}

StructNodes ==
    {Unresolved}
        \cup {Node(TRUE, tag, <<>>, v, NoAttrs) : tag \in {"math", "mi"}, v \in {<<>>, <<"x">>}}

\* self.pdDomNode is None.
NoPdDomNode ==
    [present |-> FALSE, n |-> 1, parent |-> <<0>>,
     node |-> <<Node(TRUE, "Formula", <<>>, <<>>, NoAttrs)>>]

IsStructTree(t) ==
    \E n \in 1..MaxNodes : \E p \in ValidParents(n) :
        \E r \in StructRoots : \E d \in [2..n -> StructNodes] :
            /\ \A i \in 2..n : IF p[i] = 1 THEN TRUE ELSE d[p[i]].resolves
            /\ t = [present |-> TRUE, n |-> n, parent |-> p,
                    node |-> [i \in 1..n |-> IF i = 1 THEN r ELSE d[i]]]

\* Trees of one element, or an element and a child, that vary in tag and attributes.
AttrTrees ==
    {[present |-> TRUE, n |-> 1, parent |-> <<0>>,
      node |-> <<Node(TRUE, tag, id, <<>>, attrs)>>] :
        tag \in AllTags, id \in {<<>>, None, <<"i">>}, attrs \in AttrFamily}
    \cup
    {[present |-> TRUE, n |-> 2, parent |-> <<0, 1>>,
      node |-> <<Node(TRUE, tag1, <<"i">>, <<>>, AllAttrsBut({})),
                 Node(TRUE, tag2, <<"j">>, <<"x">>, AllAttrsBut({}))>>] :
        tag1 \in AllTags, tag2 \in AllTags}

Parts ==
    {MathPrefix, XmlnsMml, <<"a", " ", "<", " ", "b">>, <<"&">>, <<">">>,
     <<"\"">>, <<"'">>, <<"x">>}

\* The concatenations of at most k parts.
RECURSIVE Concats(_)
Concats(k) ==
    IF k = 0 THEN {<<>>}
    ELSE Concats(k - 1) \cup {w \o q : w \in Concats(k - 1), q \in Parts}

\* A Formula node without children whose value varies.
FallbackTrees ==
    {[present |-> TRUE, n |-> 1, parent |-> <<0>>,
      node |-> <<Node(TRUE, "Formula", <<>>, v, [NoAttrs EXCEPT !["MSFT_MathML"] = m])>>] :
        v \in Concats(MaxParts) \cup {None}, m \in {<<>>, None}}

NoTree == [present |-> FALSE, n |-> 0, parent |-> <<>>, node |-> <<>>]

\* No failure, or the failure of one of the accessor calls that the run r makes.
Fails(r) ==
    {NoFail} \cup
    {<<r.log[i].node, r.log[i].call>> :
        i \in {j \in 1..Len(r.log) : r.log[j].call \in Accessors}}

(***************************************************************************)
(* The state machine: an input is drawn, then one operation runs on it.    *)
(***************************************************************************)
Init ==
    /\ \/ tree = NoPdDomNode
       \/ IsStructTree(tree)
       \/ tree \in AttrTrees
       \/ tree \in FallbackTrees
    /\ stdName = None
    /\ op = "none"
    /\ arg = 0
    /\ fail = NoFail
    /\ ret = Ok

\* The mathMl property of the node, with accessor call f raising COMError.
GetMathMl(f) ==
    /\ op = "none"
    /\ op' = "_get_mathMl"
    /\ arg' = 1
    /\ fail' = f
    /\ ret' = Final(_get_mathMl(tree, f))
    /\ UNCHANGED <<tree, stdName>>

\* _getNodeMathMl on element x.
GetNodeMathMl(x) ==
    /\ op = "none"
    /\ tree.present
    /\ tree.node[x].resolves
    /\ op' = "_getNodeMathMl"
    /\ arg' = x
    /\ fail' = NoFail
    /\ ret' = Final(_getNodeMathMl(tree, NoFail, x))
    /\ UNCHANGED <<tree, stdName>>

Next ==
    \/ \E f \in Fails(_get_mathMl(tree, NoFail)) : GetMathMl(f)
    \/ \E x \in 1..tree.n : GetNodeMathMl(x)

Spec == Init /\ [][Next]_vars

InitRole ==
    /\ tree = NoTree
    /\ stdName \in StdNames
    /\ op = "none"
    /\ arg = 0
    /\ fail = NoFail
    /\ ret = Ok

NormalizeStdName ==
    /\ op = "none"
    /\ op' = "normalizeStdName"
    /\ ret' = normalizeStdName(stdName)
    /\ UNCHANGED <<tree, stdName, arg, fail>>

NextRole == NormalizeStdName

SpecRole == InitRole /\ [][NextRole]_vars

(***************************************************************************)
(* Properties of normalizeStdName, checked under SpecRole.                 *)
(***************************************************************************)
HeadingNames == {<<"H", d>> : d \in {"1", "2", "3", "4", "5", "6"}}

\* The ten table names with the roles claimed for them.
ClaimedRoles ==
    << <<Sect, "SECTION">>, <<Div, "SECTION">>, <<BlockQuote, "BLOCKQUOTE">>,
       <<Caption, "CAPTION">>, <<<<"L">>, "LIST">>, <<<<"L", "I">>, "LISTITEM">>,
       <<<<"L", "b", "l">>, "LABEL">>, <<<<"P">>, "PARAGRAPH">>,
       <<<<"H">>, "HEADING">>, <<Formula, "MATH">> >>

\* C1: normalizeStdName maps each of H1..H6 to (HEADING, its digit) and each of
\* the ten table names to the table's role with no level.
C1_HeadingsAndTable ==
    op = "normalizeStdName" =>
        /\ stdName \in HeadingNames =>
              ret = [exc |-> NoExc, role |-> "HEADING", level |-> <<stdName[2]>>]
        /\ \A i \in 1..Len(ClaimedRoles) :
              stdName = ClaimedRoles[i][1] =>
                  ret = [exc |-> NoExc, role |-> ClaimedRoles[i][2], level |-> None]

\* C1 witness: H3 has been classified as a heading of level 3.
C1_Witness ==
    /\ op = "normalizeStdName"
    /\ stdName = <<"H", "3">>
    /\ ret.role = "HEADING"
    /\ ret.level = <<"3">>

\* C2: a name that is neither a table name nor H followed by one digit 1-6 is
\* not found, and a heading with a level is returned only for those two-character
\* names.
C2_OnlyTheVocabulary ==
    op = "normalizeStdName" =>
        /\ stdName \notin HeadingNames \cup {ClaimedRoles[i][1] : i \in 1..Len(ClaimedRoles)}
              => ret.exc = "LookupError"
        /\ (ret.exc = NoExc /\ ret.level # None) => stdName \in HeadingNames

(***************************************************************************)
(* Properties of the MathML reconstruction, checked under Spec.            *)
(***************************************************************************)
RootMsft == tree.node[1].attrs["MSFT_MathML"]

RootValue == tree.node[1].value

Kids == ChildSeq(tree, 1)

\* The k-th child of the node resolves as an element tagged "math".
IsMathChild(k) == tree.node[Kids[k]].resolves /\ tree.node[Kids[k]].tag = "math"

HasMathChild == \E k \in 1..Len(Kids) : IsMathChild(k)

FirstMathChild ==
    CHOOSE k \in 1..Len(Kids) : IsMathChild(k) /\ \A j \in 1..(k - 1) : ~IsMathChild(j)

\* The node's raw value has been read.
ValueRead ==
    \E i \in 1..Len(ret.log) : ret.log[i].node = 1 /\ ret.log[i].call = "GetValue"

\* The nodes of the children after the k-th and of what lies below them.
NodesAfterChild(k) ==
    UNION {Subtree(tree, Kids[j]) : j \in (k + 1)..Len(Kids)}

\* C3: _get_mathMl tries the three encodings in order.  A non-empty MSFT_MathML
\* is returned verbatim after that one lookup, no child visited, no value read.
\* Otherwise the first child that resolves and is tagged "math" is reconstructed,
\* no later child is inspected and the value is not read.  The value is read only
\* when there is no such child.
C3_TierOrder ==
    (op = "_get_mathMl" /\ tree.present) =>
        /\ Truthy(RootMsft) =>
              /\ Len(ret.log) = 1 /\ ret.log[1].call = "GetAttribute"
              /\ ret.exc = NoExc => ret.val = <<V(RootMsft)>>
        /\ (~Truthy(RootMsft) /\ HasMathChild) =>
              /\ ~ValueRead
              /\ \A i \in 1..Len(ret.log) :
                    /\ ret.log[i].node \notin NodesAfterChild(FirstMathChild)
                    /\ ret.log[i].call = "GetChild" /\ ret.log[i].node = 1
                          => ret.log[i].index < FirstMathChild
              /\ ret.exc = NoExc =>
                    ret.val = _getNodeMathMl(tree, NoFail, Kids[FirstMathChild]).val
        /\ ValueRead => ~Truthy(RootMsft) /\ ~HasMathChild
        /\ (ret.exc = NoExc /\ ~Truthy(RootMsft) /\ ~HasMathChild) => ValueRead

\* C3 witness: the vendor attribute was returned although a math child exists.
C3_Witness ==
    /\ op = "_get_mathMl"
    /\ tree.present
    /\ Truthy(RootMsft)
    /\ HasMathChild
    /\ ret.exc = NoExc
    /\ ret.val = <<V(RootMsft)>>

\* The pieces are element markup: they start with an opening tag.
IsMarkup(v) == v # <<>> /\ v[1] = L("<")

\* The tag of the opening tag that position i of v lies in.
OpenTagAt(v, i) ==
    v[CHOOSE j \in 1..(i - 1) :
          v[j].k = "tag" /\ \A m \in (j + 1)..(i - 1) : v[m].k # "tag"].s[1]

\* The (tag, attribute name) pairs written in v.
EmittedAttrs(v) ==
    {<<OpenTagAt(v, i), v[i].s[1]>> : i \in {j \in 1..Len(v) : v[j].k = "attr"}}
        \cup {<<OpenTagAt(v, i), "id">> : i \in {j \in 1..Len(v) : v[j] = L(" id=\"")}}

\* The whitelist of the specification, by tag.
Whitelist(tag) ==
    IF tag \in {"mi", "mn", "mo", "mtext"} THEN <<"mathvariant">>
    ELSE IF tag = "mfenced" THEN <<"open", "close", "separators">>
    ELSE IF tag = "menclose" THEN <<"notation", "notationtype">>
    ELSE IF tag \in {"annotation-xml", "annotation"} THEN <<"encoding">>
    ELSE IF tag = "ms" THEN <<"open", "close">>
    ELSE IF tag = "mspace" THEN <<"width">>
    ELSE IF tag = "msgroup" THEN <<"position", "shift">>
    ELSE IF tag = "msrow" THEN <<"position">>
    ELSE IF tag = "msline" THEN <<"position", "length">>
    ELSE IF tag = "mscarries" THEN <<"position", "crossout">>
    ELSE IF tag = "mscarry" THEN <<"crossout">>
    ELSE IF tag = "mstack" THEN <<"align", "stackalign">>
    ELSE IF tag = "mlongdiv" THEN <<"longdivstyle">>
    ELSE <<>>

Range(q) == {q[i] : i \in 1..Len(q)}

\* C4 as stated: every attribute name written on an element with tag T is
\* "intent", "arg" or in the whitelist of T.
C4_OnlyWhitelisted ==
    (op \in {"_get_mathMl", "_getNodeMathMl"} /\ ret.exc = NoExc /\ IsMarkup(ret.val)) =>
        \A e \in EmittedAttrs(ret.val) :
            e[2] \in {"intent", "arg"} \cup Range(Whitelist(e[1]))

\* C4 amended: every attribute name written on an element with tag T is "id",
\* "intent", "arg" or in the whitelist of T.
C4_OnlyIdAndWhitelisted ==
    (op \in {"_get_mathMl", "_getNodeMathMl"} /\ ret.exc = NoExc /\ IsMarkup(ret.val)) =>
        \A e \in EmittedAttrs(ret.val) :
            e[2] \in {"id", "intent", "arg"} \cup Range(Whitelist(e[1]))

\* C4 witness: an mi element that has every attribute set was written with
\* mathvariant and without open, and so was its child.
C4_Witness ==
    /\ op = "_getNodeMathMl"
    /\ arg = 1
    /\ tree.n = 2
    /\ tree.node[1].tag = "mi"
    /\ tree.node[2].tag = "ms"
    /\ tree.node[1].attrs["open"] = <<"v">>
    /\ ret.exc = NoExc
    /\ <<"mi", "mathvariant">> \in EmittedAttrs(ret.val)
    /\ <<"ms", "open">> \in EmittedAttrs(ret.val)
    /\ <<"mi", "open">> \notin EmittedAttrs(ret.val)

\* The position of the first piece of v from i on that starts a tag, 0 for none.
NextTag(v, i) ==
    LET At == {j \in i..Len(v) : v[j] \in {L("<"), L("</")}}
    IN IF At = {} THEN 0 ELSE CHOOSE j \in At : \A m \in At : j <= m

\* The tags of v from position i on close the elements of stack (innermost
\* last) and every element opened later, in nesting order; v starts with the
\* opening tag of the outermost element and ends with its closing tag.
RECURSIVE Balanced(_, _, _)
Balanced(v, i, stack) ==
    LET j == NextTag(v, i)
    IN IF j = 0 THEN stack = <<>> /\ i > Len(v)
       ELSE IF stack = <<>> /\ j # 1 THEN FALSE
       ELSE IF v[j] = L("<")
       THEN /\ j < Len(v)
            /\ v[j + 1].k = "tag"
            /\ Balanced(v, j + 2, Append(stack, v[j + 1].s[1]))
       ELSE /\ j + 2 <= Len(v)
            /\ v[j + 1].k = "tag"
            /\ v[j + 2] = L(">")
            /\ stack # <<>>
            /\ stack[Len(stack)] = v[j + 1].s[1]
            /\ Balanced(v, j + 3, SubSeq(stack, 1, Len(stack) - 1))

\* The number of opening tags in v.
OpenTags(v) == Cardinality({i \in 1..(Len(v) - 1) : v[i] = L("<") /\ v[i + 1].k = "tag"})

\* C5: the tags written by _getNodeMathMl are balanced and properly nested under
\* a single root element, also when children fail to resolve.
C5_Balanced ==
    (op \in {"_get_mathMl", "_getNodeMathMl"} /\ ret.exc = NoExc /\ IsMarkup(ret.val)) =>
        Balanced(ret.val, 1, <<>>)

\* C5 witness: an element with a child that fails to resolve and a resolving
\* child that has a child of its own was written as three nested elements.
C5_Witness ==
    /\ op = "_getNodeMathMl"
    /\ arg = 1
    /\ tree.n = 4
    /\ \E c \in 2..4 : tree.parent[c] = 1 /\ ~tree.node[c].resolves
    /\ \E c \in 3..4 : tree.parent[c] > 1
    /\ ret.exc = NoExc
    /\ OpenTags(ret.val) = 3
    /\ Balanced(ret.val, 1, <<>>)

\* C6: no failure of an accessor call made during _get_mathMl reaches the
\* caller: the operation ends with a markup string or NotFound.
C6_NoFailureIsFatal ==
    (op = "_get_mathMl" /\ fail # NoFail) => ret.exc \in {NoExc, "LookupError"}

\* The fallback tier is reached: no vendor attribute and no math-tagged child.
FallbackTier ==
    /\ op = "_get_mathMl"
    /\ fail = NoFail
    /\ tree.present
    /\ ~Truthy(RootMsft)
    /\ ~HasMathChild

EmptyAltText == <<L("<math><mtext>"), V(<<>>), L("</mtext></math>")>>

\* C7: in the fallback tier an absent raw value gives <math><mtext></mtext></math>
\* and no error.
C7_AbsentValueIsEmptyAltText ==
    (FallbackTier /\ RootValue = None) => (ret.exc = NoExc /\ ret.val = EmptyAltText)

\* The position of the last occurrence of old in v, 0 if there is none.
LastIndexOf(v, old) ==
    LET At == {i \in 1..(Len(v) - Len(old) + 1) :
                  v[i] = old[1] /\ SubSeq(v, i, i + Len(old) - 1) = old}
    IN IF At = {} THEN 0 ELSE CHOOSE i \in At : \A j \in At : i >= j

\* v without the occurrences of old, which do not overlap.
RECURSIVE Removed(_, _)
Removed(v, old) ==
    IF LastIndexOf(v, old) = 0 THEN v
    ELSE Removed(SubSeq(v, 1, LastIndexOf(v, old) - 1), old)
            \o SubSeq(v, LastIndexOf(v, old) + Len(old), Len(v))

\* The entity of a character among those of chars, the character otherwise.
Entity(c, chars) ==
    IF c \notin chars THEN <<c>>
    ELSE IF c = "&" THEN <<"&", "a", "m", "p", ";">>
    ELSE IF c = "<" THEN <<"&", "l", "t", ";">>
    ELSE IF c = ">" THEN <<"&", "g", "t", ";">>
    ELSE IF c = "\"" THEN <<"&", "q", "u", "o", "t", ";">>
    ELSE <<"&", "#", "x", "2", "7", ";">>

\* v with each character of chars replaced by its entity.
RECURSIVE Escaped(_, _)
Escaped(v, chars) ==
    IF Len(v) = 0 THEN <<>>
    ELSE IF Len(v) = 1 THEN Entity(v[1], chars)
    ELSE Escaped(SubSeq(v, 1, Len(v) \div 2), chars)
            \o Escaped(SubSeq(v, Len(v) \div 2 + 1, Len(v)), chars)

\* The result claimed for the raw value v when chars are the escaped characters.
FallbackResult(v, chars) ==
    IF Len(v) >= 5 /\ SubSeq(v, 1, 5) = <<"<", "m", "a", "t", "h">>
    THEN <<V(Removed(v, XmlnsMml))>>
    ELSE <<L("<math><mtext>"), V(Escaped(v, chars)), L("</mtext></math>")>>

\* C8 as stated: in the fallback tier the result is the raw value without the
\* xmlns:mml declaration when it starts with "<math", and otherwise the value
\* with &, < and > replaced by their entities inside <math><mtext>.
C8_EscapesThree ==
    (FallbackTier /\ ret.exc = NoExc) =>
        ret.val = FallbackResult(RootValue, {"&", "<", ">"})

\* C8 amended: in the fallback tier the result is the raw value without the
\* occurrences of the xmlns:mml declaration when it starts with "<math", and
\* otherwise the value with &, <, >, the double quote and the single quote
\* replaced by their entities inside <math><mtext>.
C8_EscapesFive ==
    (FallbackTier /\ ret.exc = NoExc) =>
        ret.val = FallbackResult(RootValue, {"&", "<", ">", "\"", "'"})

\* C8 witness: the value a < b" was wrapped with < and the quote escaped.
C8_Witness ==
    /\ FallbackTier
    /\ RootValue = <<"a", " ", "<", " ", "b", "\"">>
    /\ ret.exc = NoExc
    /\ ret.val = <<L("<math><mtext>"),
                   V(<<"a", " ", "&", "l", "t", ";", " ", "b", "&", "q", "u", "o", "t", ";">>),
                   L("</mtext></math>")>>

\* The position of the piece that ends the first opening tag of v.
OpenEnd(v) == CHOOSE i \in 1..Len(v) : v[i] = L(">") /\ \A j \in 1..(i - 1) : v[j] # L(">")

\* What v has between its first opening tag and its last closing tag.
ContentOf(v) == SubSeq(v, OpenEnd(v) + 1, Len(v) - 3)

\* The reconstructions of the resolving children among kids[k..], in order.
RECURSIVE ResolvingKids(_, _)
ResolvingKids(kids, k) ==
    IF k > Len(kids) THEN <<>>
    ELSE (IF tree.node[kids[k]].resolves
          THEN _getNodeMathMl(tree, NoFail, kids[k]).val
          ELSE <<>>) \o ResolvingKids(kids, k + 1)

\* C9: between the tags of an element _getNodeMathMl writes the element's value,
\* visiting no child, when the value is non-empty, and otherwise the
\* reconstructions of the children that resolve, in index order.
C9_Content ==
    (op = "_getNodeMathMl" /\ ret.exc = NoExc) =>
        IF Truthy(tree.node[arg].value)
        THEN /\ ContentOf(ret.val) = <<V(tree.node[arg].value)>>
             /\ \A i \in 1..Len(ret.log) :
                    /\ ret.log[i].node = arg
                    /\ ret.log[i].call \notin {"GetChild", "GetChildCount"}
        ELSE ContentOf(ret.val) = ResolvingKids(ChildSeq(tree, arg), 1)

\* C9 witness: of three children the second fails to resolve, and the first and
\* the third were written.
C9_Witness ==
    /\ op = "_getNodeMathMl"
    /\ arg = 1
    /\ tree.n = 4
    /\ tree.parent = <<0, 1, 1, 1>>
    /\ tree.node[2].resolves /\ ~tree.node[3].resolves /\ tree.node[4].resolves
    /\ ~Truthy(tree.node[1].value)
    /\ ret.exc = NoExc
    /\ OpenTags(ret.val) = 3
    /\ ContentOf(ret.val) =
          _getNodeMathMl(tree, NoFail, 2).val \o _getNodeMathMl(tree, NoFail, 4).val

\* The attribute pieces of the names of list that are set on node x, in order.
RECURSIVE SetAttrs(_, _)
SetAttrs(x, list) ==
    IF list = <<>> THEN <<>>
    ELSE (IF tree.node[x].attrs[Head(list)] \notin {None, <<>>}
          THEN <<L(" "), A(Head(list)), L("=\""), V(tree.node[x].attrs[Head(list)]), L("\"")>>
          ELSE <<>>) \o SetAttrs(x, Tail(list))

\* C10: the opening tag of an element with tag T has id, then intent, then arg,
\* then the whitelist attributes of T in table order, each exactly when its value
\* is present and non-empty.
C10_OpeningTag ==
    (op = "_getNodeMathMl" /\ ret.exc = NoExc) =>
        SubSeq(ret.val, 1, OpenEnd(ret.val)) =
            <<L("<"), T(tree.node[arg].tag)>>
                \o (IF tree.node[arg].id \notin {None, <<>>}
                    THEN <<L(" id=\""), V(tree.node[arg].id), L("\"")>>
                    ELSE <<>>)
                \o SetAttrs(arg, <<"intent", "arg">> \o Whitelist(tree.node[arg].tag))
                \o <<L(">")>>

\* C10 witness: an mfenced element with open set and close unset was written
\* with open and without close.
C10_Witness ==
    /\ op = "_getNodeMathMl"
    /\ tree.node[arg].tag = "mfenced"
    /\ tree.node[arg].attrs["open"] = <<"v">>
    /\ ~Truthy(tree.node[arg].attrs["close"])
    /\ ret.exc = NoExc
    /\ <<"mfenced", "open">> \in EmittedAttrs(ret.val)
    /\ <<"mfenced", "close">> \notin EmittedAttrs(ret.val)

=============================================================================
